---- MODULE Spec2Model ----
(***************************************************************************)
(* Pipeline editor: the DAG validator (utils/validateDAG.ts), the          *)
(* connection guard and layout helper (utils/graphHelpers.ts) and the      *)
(* editor state held by App.tsx and the Canvas component.                  *)
(*                                                                         *)
(* Three specifications share the module:                                  *)
(*   SpecValidate  validateDAG applied to an arbitrary bounded input       *)
(*   SpecGuard     canConnectNodes applied to an arbitrary bounded input   *)
(*   Spec          the editor: App state, Canvas state, their handlers,    *)
(*                 effects and pending setTimeout callbacks                *)
(***************************************************************************)
EXTENDS Integers, Sequences, FiniteSets, TLC

VARIABLES
    \* --- engine calls (SpecValidate, SpecGuard) ---
    argNodes,       \* Node[] handed to validateDAG
    argEdges,       \* Edge[] handed to validateDAG / canConnectNodes
    argSource,      \* sourceNodeId handed to canConnectNodes
    argTarget,      \* targetNodeId handed to canConnectNodes
    result,         \* DAGValidationResult returned by validateDAG
    decision,       \* { canConnect, reason? } returned by canConnectNodes
    pc,             \* "idle" | "validated" | "decided"
    \* --- editor (Spec) ---
    nodes,          \* App: const [nodes, setNodes]
    edges,          \* App: const [edges, setEdges]
    validation,     \* App: useMemo(validateDAG(nodes, edges))
    internalNodes,  \* Canvas: useNodesState
    internalEdges,  \* Canvas: useEdgesState
    prevNodeIds,    \* Canvas: prevNodeIds ref
    prevEdgeIds,    \* Canvas: prevEdgeIds ref
    pendingNodes,   \* Canvas: setInternalNodes(nodes) queued by the sync effect, not yet rendered
    pendingEdges,   \* Canvas: setInternalEdges(edges) queued by the sync effect, not yet rendered
    timers,         \* pending setTimeout(..., 0) callbacks, FIFO
    nextId          \* number of node ids generated so far

engineVars == <<argNodes, argEdges, argSource, argTarget, result, decision, pc>>
editorVars == <<nodes, edges, validation, internalNodes, internalEdges,
                prevNodeIds, prevEdgeIds, pendingNodes, pendingEdges,
                timers, nextId>>
vars == <<argNodes, argEdges, argSource, argTarget, result, decision, pc,
          nodes, edges, validation, internalNodes, internalEdges,
          prevNodeIds, prevEdgeIds, pendingNodes, pendingEdges,
          timers, nextId>>

(***************************************************************************)
(* Bounds                                                                  *)
(***************************************************************************)
\* longest edge collection handed to the engine
MaxEdges == 3
\* node ids the editor session may generate
MaxNodes == 2
\* setTimeout callbacks that may be pending at once
MaxTimers == 1

\* node ids the engine inputs are drawn from
NodeIds == {"A", "B", "C"}
\* ids generateNodeId hands out, in order
IdPool == <<"A", "B", "C", "D", "E">>

None == "none"

\* pendingNodes / pendingEdges hold <<value>> while an update is queued
NoPending == <<>>

(***************************************************************************)
(* Error and reason strings                                                *)
(***************************************************************************)
ErrNoNodes == "No nodes present - click on canvas to add nodes"
ErrOneNode == "Add at least 1 more node for a valid DAG"
ErrSelfLoops == "Self-loops detected - nodes cannot connect to themselves"
ErrCycle == "Cycle detected - remove connections that create loops"
ErrNoConnections == "No connections between nodes - drag to connect nodes"
ErrIsolated == "Some nodes are isolated - ensure all nodes are connected"
ReasonSelf == "Cannot connect node to itself"
ReasonExists == "Connection already exists"
ReasonCycle == "Would create a cycle"

(***************************************************************************)
(* JavaScript helpers used by the engine                                   *)
(***************************************************************************)
Range(s) == {s[i] : i \in DOMAIN s}

\* nodes.map(n => n.id)
MapIds(ns) == [i \in DOMAIN ns |-> ns[i].id]

\* the ids of a collection of nodes or edges, as a set
IdsOf(items) == {items[i].id : i \in DOMAIN items}

\* adjList.get(k) || []
MapGet(m, k) == IF k \in DOMAIN m THEN m[k] ELSE <<>>

\* adjList.set(k, v)
MapSet(m, k, v) == [x \in (DOMAIN m) \cup {k} |-> IF x = k THEN v ELSE m[x]]

\* for (const nodeId of nodeIds) adjList.set(nodeId, [])
EmptyAdjacency(nodeIds) == [x \in Range(nodeIds) |-> <<>>]

(***************************************************************************)
(* validateDAG.ts: adjacency builders                                      *)
(***************************************************************************)
RECURSIVE DirectedFrom(_, _, _)
DirectedFrom(adjList, es, i) ==
    IF i > Len(es) THEN adjList
    ELSE LET e == es[i]
             sourceList == Append(MapGet(adjList, e.source), e.target)
         IN  DirectedFrom(MapSet(adjList, e.source, sourceList), es, i + 1)

buildAdjacencyList(nodeIds, es) == DirectedFrom(EmptyAdjacency(nodeIds), es, 1)

\* One iteration of the loop body of buildUndirectedAdjacencyList.  When source
\* and target are the same key already in the map, sourceList and targetList
\* are the same array and receive both pushes; when that key is not in the map
\* they are two fresh arrays and the second set() overwrites the first.
UndirectedStep(adjList, e) ==
    IF e.source = e.target
    THEN IF e.source \in DOMAIN adjList
         THEN MapSet(adjList, e.source, adjList[e.source] \o <<e.target, e.source>>)
         ELSE MapSet(adjList, e.target, <<e.source>>)
    ELSE LET sourceList == Append(MapGet(adjList, e.source), e.target)
             targetList == Append(MapGet(adjList, e.target), e.source)
         IN  MapSet(MapSet(adjList, e.source, sourceList), e.target, targetList)

RECURSIVE UndirectedFrom(_, _, _)
UndirectedFrom(adjList, es, i) ==
    IF i > Len(es) THEN adjList
    ELSE UndirectedFrom(UndirectedStep(adjList, es[i]), es, i + 1)

\* mutant: only the source side of each edge is recorded
buildUndirectedAdjacencyList_directedOnly(nodeIds, es) ==
    buildAdjacencyList(nodeIds, es)

buildUndirectedAdjacencyList(nodeIds, es) ==
    UndirectedFrom(EmptyAdjacency(nodeIds), es, 1)

(***************************************************************************)
(* validateDAG.ts: cycle detection                                         *)
(* dfsHasCycle mutates the shared sets visited and recursionStack; the     *)
(* operators thread them through and return them with the verdict.         *)
(* visited is kept as the sequence of the visited.add(nodeId) calls, in    *)
(* order; the Set of the code is its range.                                *)
(***************************************************************************)
RECURSIVE dfsHasCycle(_, _, _, _)
RECURSIVE DfsNeighbors(_, _, _, _, _)
RECURSIVE DfsNeighbors_stackOnly(_, _, _, _, _)

\* mutant: a neighbor is entered unless it is on the recursion stack
DfsNeighbors_stackOnly(neighbors, i, adjList, visited, recursionStack) ==
    IF i > Len(neighbors)
    THEN [found |-> FALSE, visited |-> visited, recursionStack |-> recursionStack]
    ELSE LET neighbor == neighbors[i] IN
         IF neighbor \notin recursionStack
         THEN LET r == dfsHasCycle(neighbor, adjList, visited, recursionStack) IN
              IF r.found THEN r
              ELSE DfsNeighbors_stackOnly(neighbors, i + 1, adjList,
                                          r.visited, r.recursionStack)
         ELSE [found |-> TRUE, visited |-> visited, recursionStack |-> recursionStack]

\* for (const neighbor of neighbors) { ... } of dfsHasCycle, from index i
DfsNeighbors(neighbors, i, adjList, visited, recursionStack) ==
    IF i > Len(neighbors)
    THEN [found |-> FALSE, visited |-> visited, recursionStack |-> recursionStack]
    ELSE LET neighbor == neighbors[i] IN
         IF neighbor \notin Range(visited)
         THEN LET r == dfsHasCycle(neighbor, adjList, visited, recursionStack) IN
              IF r.found THEN r
              ELSE DfsNeighbors(neighbors, i + 1, adjList, r.visited, r.recursionStack)
         ELSE IF neighbor \in recursionStack
              THEN [found |-> TRUE, visited |-> visited, recursionStack |-> recursionStack]
              ELSE DfsNeighbors(neighbors, i + 1, adjList, visited, recursionStack)

dfsHasCycle(nodeId, adjList, visited, recursionStack) ==
    LET r == DfsNeighbors(MapGet(adjList, nodeId), 1, adjList,
                          Append(visited, nodeId), recursionStack \cup {nodeId})
    IN  IF r.found THEN r
        ELSE [found |-> FALSE, visited |-> r.visited,
              recursionStack |-> r.recursionStack \ {nodeId}]

\* for (const nodeId of nodeIds) { ... } of detectCycles, from index i
RECURSIVE DetectFromRoots(_, _, _, _, _)
DetectFromRoots(nodeIds, i, adjList, visited, recursionStack) ==
    IF i > Len(nodeIds)
    THEN [found |-> FALSE, visited |-> visited, recursionStack |-> recursionStack]
    ELSE IF nodeIds[i] \notin Range(visited)
         THEN LET r == dfsHasCycle(nodeIds[i], adjList, visited, recursionStack) IN
              IF r.found THEN r
              ELSE DetectFromRoots(nodeIds, i + 1, adjList, r.visited, r.recursionStack)
         ELSE DetectFromRoots(nodeIds, i + 1, adjList, visited, recursionStack)

\* the body of detectCycles past its early return: the verdict with the
\* final visited and recursionStack
DetectRun(ns, es) ==
    LET nodeIds == MapIds(ns) IN
    DetectFromRoots(nodeIds, 1, buildAdjacencyList(nodeIds, es), <<>>, {})

\* mutant: the search stops after the first root
detectCycles_firstRootOnly(ns, es) ==
    IF Len(ns) = 0 \/ Len(es) = 0 THEN FALSE
    ELSE dfsHasCycle(MapIds(ns)[1], buildAdjacencyList(MapIds(ns), es), <<>>, {}).found

detectCycles(ns, es) ==
    IF Len(ns) = 0 \/ Len(es) = 0 THEN FALSE
    ELSE DetectRun(ns, es).found

(***************************************************************************)
(* validateDAG.ts: weak connectivity                                       *)
(***************************************************************************)
RECURSIVE ConnDfs(_, _, _)
RECURSIVE ConnNeighbors(_, _, _, _)

\* for (const neighbor of neighbors) { ... } of the inner dfs, from index i
ConnNeighbors(neighbors, i, adjList, visited) ==
    IF i > Len(neighbors) THEN visited
    ELSE IF neighbors[i] \notin Range(visited)
         THEN ConnNeighbors(neighbors, i + 1, adjList,
                            ConnDfs(neighbors[i], adjList, visited))
         ELSE ConnNeighbors(neighbors, i + 1, adjList, visited)

\* function dfs(nodeId) inside isWeaklyConnected; returns visited
ConnDfs(nodeId, adjList, visited) ==
    ConnNeighbors(MapGet(adjList, nodeId), 1, adjList, Append(visited, nodeId))

\* dfs(startNode) of isWeaklyConnected: visited when it returns
ConnRun(ns, es) ==
    LET nodeIds == MapIds(ns) IN
    ConnDfs(nodeIds[1], buildUndirectedAdjacencyList(nodeIds, es), <<>>)

\* mutant: connectivity is judged by the number of edges
isWeaklyConnected_edgeCount(ns, es) ==
    IF Len(ns) <= 1 THEN TRUE ELSE Len(es) >= Len(ns) - 1

isWeaklyConnected(ns, es) ==
    IF Len(ns) <= 1 THEN TRUE
    ELSE IF Len(es) = 0 THEN FALSE
    ELSE Cardinality(Range(ConnRun(ns, es))) = Len(ns)

(***************************************************************************)
(* validateDAG.ts: validateDAG                                             *)
(***************************************************************************)
\* edges.some(edge => edge.source === edge.target)
SomeSelfLoop(es) == \E i \in DOMAIN es : es[i].source = es[i].target

Push(errors, cond, msg) == IF cond THEN Append(errors, msg) ELSE errors

\* mutant: the checks short-circuit, later flags keep their passing defaults
validateDAG_shortCircuit(ns, es) ==
    LET hasMinNodes == Len(ns) >= 2
        hasSelfLoops == hasMinNodes /\ SomeSelfLoop(es)
        hasCycles == IF hasMinNodes /\ ~hasSelfLoops /\ Len(es) > 0
                     THEN detectCycles(ns, es) ELSE FALSE
        allNodesConnected == IF hasMinNodes /\ ~hasSelfLoops /\ ~hasCycles
                             THEN isWeaklyConnected(ns, es) ELSE TRUE
    IN  [isValid |-> hasMinNodes /\ ~hasCycles /\ allNodesConnected /\ ~hasSelfLoops,
         errors |-> <<>>,
         hasMinNodes |-> hasMinNodes,
         hasCycles |-> hasCycles,
         allNodesConnected |-> allNodesConnected,
         hasSelfLoops |-> hasSelfLoops]

\* mutant: the node-count message is chosen by nodes.length <= 1 alone
validateDAG_zeroOrOne(ns, es) ==
    LET hasMinNodes == Len(ns) >= 2
        e1 == IF Len(ns) <= 1 THEN <<ErrNoNodes>> ELSE <<>>
        hasSelfLoops == SomeSelfLoop(es)
        e2 == Push(e1, hasSelfLoops, ErrSelfLoops)
        hasCycles == IF Len(es) > 0 /\ Len(ns) > 1 THEN detectCycles(ns, es) ELSE FALSE
        e3 == Push(e2, hasCycles, ErrCycle)
        allNodesConnected == isWeaklyConnected(ns, es)
        e4 == IF ~allNodesConnected /\ Len(ns) > 1
              THEN IF Len(es) = 0 THEN Append(e3, ErrNoConnections)
                   ELSE Append(e3, ErrIsolated)
              ELSE e3
    IN  [isValid |-> hasMinNodes /\ ~hasCycles /\ allNodesConnected /\ ~hasSelfLoops,
         errors |-> e4,
         hasMinNodes |-> hasMinNodes,
         hasCycles |-> hasCycles,
         allNodesConnected |-> allNodesConnected,
         hasSelfLoops |-> hasSelfLoops]

\* mutant: the 'No connections' message is chosen by edges.length < nodes.length - 1
validateDAG_fewEdgesMessage(ns, es) ==
    LET hasMinNodes == Len(ns) >= 2
        e1 == IF hasMinNodes THEN <<>>
              ELSE IF Len(ns) = 0 THEN <<ErrNoNodes>>
              ELSE IF Len(ns) = 1 THEN <<ErrOneNode>>
              ELSE <<>>
        hasSelfLoops == SomeSelfLoop(es)
        e2 == Push(e1, hasSelfLoops, ErrSelfLoops)
        hasCycles == IF Len(es) > 0 /\ Len(ns) > 1 THEN detectCycles(ns, es) ELSE FALSE
        e3 == Push(e2, hasCycles, ErrCycle)
        allNodesConnected == isWeaklyConnected(ns, es)
        e4 == IF ~allNodesConnected /\ Len(ns) > 1
              THEN IF Len(es) < Len(ns) - 1 THEN Append(e3, ErrNoConnections)
                   ELSE Append(e3, ErrIsolated)
              ELSE e3
    IN  [isValid |-> hasMinNodes /\ ~hasCycles /\ allNodesConnected /\ ~hasSelfLoops,
         errors |-> e4,
         hasMinNodes |-> hasMinNodes,
         hasCycles |-> hasCycles,
         allNodesConnected |-> allNodesConnected,
         hasSelfLoops |-> hasSelfLoops]

\* mutant: detectCycles runs whatever the node and edge counts are
validateDAG_alwaysDetects(ns, es) ==
    LET hasMinNodes == Len(ns) >= 2
        e1 == IF hasMinNodes THEN <<>>
              ELSE IF Len(ns) = 0 THEN <<ErrNoNodes>>
              ELSE IF Len(ns) = 1 THEN <<ErrOneNode>>
              ELSE <<>>
        hasSelfLoops == SomeSelfLoop(es)
        e2 == Push(e1, hasSelfLoops, ErrSelfLoops)
        hasCycles == detectCycles(ns, es)
        e3 == Push(e2, hasCycles, ErrCycle)
        allNodesConnected == isWeaklyConnected(ns, es)
        e4 == IF ~allNodesConnected /\ Len(ns) > 1
              THEN IF Len(es) = 0 THEN Append(e3, ErrNoConnections)
                   ELSE Append(e3, ErrIsolated)
              ELSE e3
    IN  [isValid |-> hasMinNodes /\ ~hasCycles /\ allNodesConnected /\ ~hasSelfLoops,
         errors |-> e4,
         hasMinNodes |-> hasMinNodes,
         hasCycles |-> hasCycles,
         allNodesConnected |-> allNodesConnected,
         hasSelfLoops |-> hasSelfLoops]

\* mutant: a self-loop clears isValid without a message
validateDAG_silentSelfLoop(ns, es) ==
    LET hasMinNodes == Len(ns) >= 2
        e1 == IF hasMinNodes THEN <<>>
              ELSE IF Len(ns) = 0 THEN <<ErrNoNodes>>
              ELSE IF Len(ns) = 1 THEN <<ErrOneNode>>
              ELSE <<>>
        hasSelfLoops == SomeSelfLoop(es)
        e2 == e1
        hasCycles == IF Len(es) > 0 /\ Len(ns) > 1 THEN detectCycles(ns, es) ELSE FALSE
        e3 == Push(e2, hasCycles, ErrCycle)
        allNodesConnected == isWeaklyConnected(ns, es)
        e4 == IF ~allNodesConnected /\ Len(ns) > 1
              THEN IF Len(es) = 0 THEN Append(e3, ErrNoConnections)
                   ELSE Append(e3, ErrIsolated)
              ELSE e3
    IN  [isValid |-> hasMinNodes /\ ~hasCycles /\ allNodesConnected /\ ~hasSelfLoops,
         errors |-> e4,
         hasMinNodes |-> hasMinNodes,
         hasCycles |-> hasCycles,
         allNodesConnected |-> allNodesConnected,
         hasSelfLoops |-> hasSelfLoops]

validateDAG(ns, es) ==
    LET hasMinNodes == Len(ns) >= 2
        e1 == IF hasMinNodes THEN <<>>
              ELSE IF Len(ns) = 0 THEN <<ErrNoNodes>>
              ELSE IF Len(ns) = 1 THEN <<ErrOneNode>>
              ELSE <<>>
        hasSelfLoops == SomeSelfLoop(es)
        e2 == Push(e1, hasSelfLoops, ErrSelfLoops)
        hasCycles == IF Len(es) > 0 /\ Len(ns) > 1 THEN detectCycles(ns, es) ELSE FALSE
        e3 == Push(e2, hasCycles, ErrCycle)
        allNodesConnected == isWeaklyConnected(ns, es)
        e4 == IF ~allNodesConnected /\ Len(ns) > 1
              THEN IF Len(es) = 0 THEN Append(e3, ErrNoConnections)
                   ELSE Append(e3, ErrIsolated)
              ELSE e3
    IN  [isValid |-> hasMinNodes /\ ~hasCycles /\ allNodesConnected /\ ~hasSelfLoops,
         errors |-> e4,
         hasMinNodes |-> hasMinNodes,
         hasCycles |-> hasCycles,
         allNodesConnected |-> allNodesConnected,
         hasSelfLoops |-> hasSelfLoops]

(***************************************************************************)
(* graphHelpers.ts: canConnectNodes / wouldCreateCycle                     *)
(* hasPath shares the set visited across its recursive calls; the          *)
(* operators thread it through and return it with the verdict.  visited is *)
(* kept as the sequence of the visited.add(from) calls, as above.          *)
(***************************************************************************)
\* edges.filter(edge => edge.source === from), in order
RECURSIVE OutgoingFrom(_, _, _)
OutgoingFrom(es, from, i) ==
    IF i > Len(es) THEN <<>>
    ELSE IF es[i].source = from
         THEN <<es[i]>> \o OutgoingFrom(es, from, i + 1)
         ELSE OutgoingFrom(es, from, i + 1)

RECURSIVE hasPath(_, _, _, _)
RECURSIVE HasPathLoop(_, _, _, _, _)

\* for (const edge of outgoingEdges) { ... } of hasPath, from index i
HasPathLoop(outgoingEdges, i, to, es, visited) ==
    IF i > Len(outgoingEdges) THEN [found |-> FALSE, visited |-> visited]
    ELSE LET r == hasPath(outgoingEdges[i].target, to, es, visited) IN
         IF r.found THEN r
         ELSE HasPathLoop(outgoingEdges, i + 1, to, es, r.visited)

hasPath(from, to, es, visited) ==
    IF from = to THEN [found |-> TRUE, visited |-> visited]
    ELSE IF from \in Range(visited) THEN [found |-> FALSE, visited |-> visited]
    ELSE HasPathLoop(OutgoingFrom(es, from, 1), 1, to, es, Append(visited, from))

\* mutant: the path is searched from source to target
wouldCreateCycle_wrongDirection(sourceId, targetId, es) ==
    hasPath(sourceId, targetId, es, <<>>).found

\* mutant: only a direct reverse edge counts
wouldCreateCycle_directOnly(sourceId, targetId, es) ==
    \E i \in DOMAIN es : es[i].source = targetId /\ es[i].target = sourceId

\* mutant: nothing closes a cycle
wouldCreateCycle_never(sourceId, targetId, es) == FALSE

wouldCreateCycle(sourceId, targetId, es) ==
    hasPath(targetId, sourceId, es, <<>>).found

\* edges.some(edge => edge.source === sourceNodeId && edge.target === targetNodeId)
ConnectionExists(sourceNodeId, targetNodeId, es) ==
    \E i \in DOMAIN es : es[i].source = sourceNodeId /\ es[i].target = targetNodeId

\* mutant: the duplicate rule is tested before the self-connection rule
canConnectNodes_duplicateFirst(sourceNodeId, targetNodeId, es) ==
    IF ConnectionExists(sourceNodeId, targetNodeId, es)
    THEN [canConnect |-> FALSE, reason |-> ReasonExists]
    ELSE IF sourceNodeId = targetNodeId
    THEN [canConnect |-> FALSE, reason |-> ReasonSelf]
    ELSE IF wouldCreateCycle(sourceNodeId, targetNodeId, es)
    THEN [canConnect |-> FALSE, reason |-> ReasonCycle]
    ELSE [canConnect |-> TRUE, reason |-> None]

\* mutant: the cycle rule is tested before the duplicate rule
canConnectNodes_cycleFirst(sourceNodeId, targetNodeId, es) ==
    IF sourceNodeId = targetNodeId
    THEN [canConnect |-> FALSE, reason |-> ReasonSelf]
    ELSE IF wouldCreateCycle(sourceNodeId, targetNodeId, es)
    THEN [canConnect |-> FALSE, reason |-> ReasonCycle]
    ELSE IF ConnectionExists(sourceNodeId, targetNodeId, es)
    THEN [canConnect |-> FALSE, reason |-> ReasonExists]
    ELSE [canConnect |-> TRUE, reason |-> None]

\* reason is None where the returned object has no reason property
canConnectNodes(sourceNodeId, targetNodeId, es) ==
    IF sourceNodeId = targetNodeId
    THEN [canConnect |-> FALSE, reason |-> ReasonSelf]
    ELSE IF ConnectionExists(sourceNodeId, targetNodeId, es)
    THEN [canConnect |-> FALSE, reason |-> ReasonExists]
    ELSE IF wouldCreateCycle(sourceNodeId, targetNodeId, es)
    THEN [canConnect |-> FALSE, reason |-> ReasonCycle]
    ELSE [canConnect |-> TRUE, reason |-> None]

(***************************************************************************)
(* graphHelpers.ts: createNode, autoLayoutNodes                            *)
(* A node is [id, type, position, data, style, selected]; an edge of the   *)
(* editor is [id, source, target, selected].                               *)
(***************************************************************************)
RankSep == 100
NodeSep == 80
NodeWidth == 150
NodeHeight == 50
HalfWidth == 75
HalfHeight == 25

\* where a click (or handleAddRandomNode) puts a new node
StartPosition == [x |-> 100, y |-> 100]

\* the answer given to prompt('Enter node name:'), trimmed
NodeName == "Node"

NodeStyle ==
    [background |-> "#ffffff", border |-> "2px solid #e5e7eb", borderRadius |-> "8px",
     padding |-> "10px", fontSize |-> "14px", fontWeight |-> "500",
     color |-> "#374151", minWidth |-> "120px", textAlign |-> "center"]

\* selected is absent from the created object and read as false
createNode(id, name, position) ==
    [id |-> id, type |-> "default", position |-> position,
     data |-> [label |-> name], style |-> NodeStyle, selected |-> FALSE]

Max(a, b) == IF a >= b THEN a ELSE b

\* one pass over the edges: rank[target] = max(rank[target], rank[source] + 1)
RECURSIVE RankPass(_, _, _)
RankPass(rank, es, i) ==
    IF i > Len(es) THEN rank
    ELSE LET e == es[i] IN
         IF e.source \in DOMAIN rank /\ e.target \in DOMAIN rank /\ e.source # e.target
         THEN RankPass([rank EXCEPT ![e.target] = Max(@, rank[e.source] + 1)], es, i + 1)
         ELSE RankPass(rank, es, i + 1)

RECURSIVE RankPasses(_, _, _)
RankPasses(rank, es, n) ==
    IF n = 0 THEN rank ELSE RankPasses(RankPass(rank, es, 1), es, n - 1)

\* dagre.layout: the coordinates given to every node, by rank (longest path
\* from a node without incoming edges, the passes bounded by the node count)
\* times the vertical spacing and by its place among the nodes of its rank, in
\* input order, times the slot width.  Only the ids of the nodes are passed.
dagreLayout(nodeIds, es) ==
    LET rank == RankPasses([id \in Range(nodeIds) |-> 0], es, Len(nodeIds))
        slot(i) == Cardinality({j \in 1..(i - 1) : rank[nodeIds[j]] = rank[nodeIds[i]]})
    IN  [i \in DOMAIN nodeIds |->
            [x |-> slot(i) * (NodeWidth + NodeSep),
             y |-> rank[nodeIds[i]] * (NodeHeight + RankSep)]]

\* mutant: the computed offset is added to the position the node already has
autoLayoutNodes_shiftsCurrent(ns, es) ==
    LET nodeWithPosition == dagreLayout(MapIds(ns), es)
    IN  [i \in DOMAIN ns |->
            [ns[i] EXCEPT !.position =
                [x |-> ns[i].position.x + nodeWithPosition[i].x - HalfWidth,
                 y |-> ns[i].position.y + nodeWithPosition[i].y - HalfHeight]]]

\* mutant: the returned nodes are rebuilt by createNode from id and label
autoLayoutNodes_rebuilds(ns, es) ==
    LET nodeWithPosition == dagreLayout(MapIds(ns), es)
    IN  [i \in DOMAIN ns |->
            createNode(ns[i].id, ns[i].data.label,
                       [x |-> nodeWithPosition[i].x - HalfWidth,
                        y |-> nodeWithPosition[i].y - HalfHeight])]

autoLayoutNodes(ns, es) ==
    LET nodeWithPosition == dagreLayout(MapIds(ns), es)
    IN  [i \in DOMAIN ns |->
            [ns[i] EXCEPT !.position = [x |-> nodeWithPosition[i].x - HalfWidth,
                                        y |-> nodeWithPosition[i].y - HalfHeight]]]

(***************************************************************************)
(* Canvas.tsx (the component with internal state) and App.tsx              *)
(*                                                                         *)
(* internalNodes / internalEdges are the values of the last Canvas render, *)
(* the ones the handlers' closures hold.  An update made by a user event   *)
(* is rendered before the next event is dispatched.  An update made by a   *)
(* sync effect (setInternalNodes(nodes), setInternalEdges(edges)) is       *)
(* rendered by a later task: until CanvasRender runs it is pending, the    *)
(* handlers still hold the previous render's values, and a functional      *)
(* update queued meanwhile is replayed on top of the pending value.        *)
(***************************************************************************)
\* id: `edge_${params.source}_${params.target}`
NewEdge(s, t) == [id |-> <<"edge", s, t>>, source |-> s, target |-> t, selected |-> FALSE]

\* @xyflow/react addEdge: an edge between the same source and target is not added twice
addEdge(edge, es) ==
    IF ConnectionExists(edge.source, edge.target, es) THEN es ELSE Append(es, edge)

\* applyNodeChanges / applyEdgeChanges for one change { id, type: 'select', selected }
SelectChange(items, id, sel) ==
    [i \in DOMAIN items |->
        IF items[i].id = id THEN [items[i] EXCEPT !.selected = sel] ELSE items[i]]

Selected(items) == SelectSeq(items, LAMBDA it : it.selected)

\* nodes.filter(node => !selectedNodeIds.includes(node.id))
RemainingNodes(ns) ==
    LET selectedNodeIds == IdsOf(Selected(ns))
    IN  SelectSeq(ns, LAMBDA n : n.id \notin selectedNodeIds)

\* edges.filter(edge => !selectedEdges.some(...) && !selectedNodeIds.includes(edge.source)
\*                      && !selectedNodeIds.includes(edge.target))
RemainingEdges(ns, es) ==
    LET selectedNodeIds == IdsOf(Selected(ns))
        selectedEdgeIds == IdsOf(Selected(es))
    IN  SelectSeq(es, LAMBDA e : /\ e.id \notin selectedEdgeIds
                                 /\ e.source \notin selectedNodeIds
                                 /\ e.target \notin selectedNodeIds)

\* hasNewNodes || hasRemovedNodes (and the same test on edges)
IdsChanged(items, prevIds) ==
    \/ \E i \in DOMAIN items : items[i].id \notin prevIds
    \/ \E id \in prevIds : id \notin IdsOf(items)

\* A render of App with state (ns, es): the validation memo and the two sync
\* effects of Canvas.  An effect whose dependency did not change is not run
\* by React; running it here changes nothing, its ref already holding the ids.
AppCommit(ns, es) ==
    /\ validation' = validateDAG(ns, es)
    /\ IF IdsChanged(ns, prevNodeIds)
       THEN pendingNodes' = <<ns>> /\ prevNodeIds' = IdsOf(ns)
       ELSE UNCHANGED <<pendingNodes, prevNodeIds>>
    /\ IF IdsChanged(es, prevEdgeIds)
       THEN pendingEdges' = <<es>> /\ prevEdgeIds' = IdsOf(es)
       ELSE UNCHANGED <<pendingEdges, prevEdgeIds>>

\* handleAddNode / handleAddRandomNode with a non-empty name
handleAddNode ==
    /\ nextId < MaxNodes
    /\ LET newNode == createNode(IdPool[nextId + 1], NodeName, StartPosition)
       IN  /\ nodes' = Append(nodes, newNode)
           /\ AppCommit(Append(nodes, newNode), edges)
    /\ nextId' = nextId + 1
    /\ UNCHANGED <<edges, internalNodes, internalEdges, timers>>
    /\ UNCHANGED engineVars

\* onConnect, for a connection drawn between two rendered nodes; a refused
\* connection shows a toast and returns
onConnect ==
    /\ \E s \in IdsOf(internalNodes), t \in IdsOf(internalNodes) :
          /\ canConnectNodes(s, t, internalEdges).canConnect
          /\ internalEdges' = addEdge(NewEdge(s, t), internalEdges)
          /\ pendingEdges' = IF pendingEdges = NoPending THEN NoPending
                             ELSE <<addEdge(NewEdge(s, t), pendingEdges[1])>>
    /\ UNCHANGED <<nodes, edges, validation, internalNodes, prevNodeIds,
                   prevEdgeIds, pendingNodes, timers, nextId>>
    /\ UNCHANGED engineVars

\* handleNodesChange with one selection change; the write-back to App is
\* deferred by setTimeout and built from the closure's internalNodes
handleNodesChange ==
    /\ Len(timers) < MaxTimers
    /\ \E i \in DOMAIN internalNodes :
          LET id == internalNodes[i].id
              sel == ~internalNodes[i].selected
          IN  /\ internalNodes' = SelectChange(internalNodes, id, sel)
              /\ pendingNodes' = IF pendingNodes = NoPending THEN NoPending
                                 ELSE <<SelectChange(pendingNodes[1], id, sel)>>
              /\ timers' = Append(timers,
                     [kind |-> "nodes", payload |-> SelectChange(internalNodes, id, sel)])
    /\ UNCHANGED <<nodes, edges, validation, internalEdges, prevNodeIds,
                   prevEdgeIds, pendingEdges, nextId>>
    /\ UNCHANGED engineVars

\* handleEdgesChange with one selection change
handleEdgesChange ==
    /\ Len(timers) < MaxTimers
    /\ \E i \in DOMAIN internalEdges :
          LET id == internalEdges[i].id
              sel == ~internalEdges[i].selected
          IN  /\ internalEdges' = SelectChange(internalEdges, id, sel)
              /\ pendingEdges' = IF pendingEdges = NoPending THEN NoPending
                                 ELSE <<SelectChange(pendingEdges[1], id, sel)>>
              /\ timers' = Append(timers,
                     [kind |-> "edges", payload |-> SelectChange(internalEdges, id, sel)])
    /\ UNCHANGED <<nodes, edges, validation, internalNodes, prevNodeIds,
                   prevEdgeIds, pendingNodes, nextId>>
    /\ UNCHANGED engineVars

\* the setTimeout callback: onNodesChange(updatedNodes) / onEdgesChange(updatedEdges),
\* that is setNodes / setEdges of App, and the render that follows
TimerFire ==
    /\ timers # <<>>
    /\ LET t == Head(timers) IN
       IF t.kind = "nodes"
       THEN /\ nodes' = t.payload
            /\ AppCommit(t.payload, edges)
            /\ UNCHANGED edges
       ELSE /\ edges' = t.payload
            /\ AppCommit(nodes, t.payload)
            /\ UNCHANGED nodes
    /\ timers' = Tail(timers)
    /\ UNCHANGED <<internalNodes, internalEdges, nextId>>
    /\ UNCHANGED engineVars

\* the render that applies the updates queued by the sync effects
CanvasRender ==
    /\ pendingNodes # NoPending \/ pendingEdges # NoPending
    /\ internalNodes' = IF pendingNodes # NoPending THEN pendingNodes[1] ELSE internalNodes
    /\ internalEdges' = IF pendingEdges # NoPending THEN pendingEdges[1] ELSE internalEdges
    /\ pendingNodes' = NoPending
    /\ pendingEdges' = NoPending
    /\ UNCHANGED <<nodes, edges, validation, prevNodeIds, prevEdgeIds,
                   timers, nextId>>
    /\ UNCHANGED engineVars

\* deleteSelected (Delete / Backspace), when something is selected: both
\* collections are set to values computed from the closure
deleteSelected ==
    /\ Len(Selected(internalNodes)) > 0 \/ Len(Selected(internalEdges)) > 0
    /\ internalNodes' = RemainingNodes(internalNodes)
    /\ internalEdges' = RemainingEdges(internalNodes, internalEdges)
    /\ pendingNodes' = NoPending
    /\ pendingEdges' = NoPending
    /\ UNCHANGED <<nodes, edges, validation, prevNodeIds, prevEdgeIds, timers, nextId>>
    /\ UNCHANGED engineVars

\* handleDeleteSelected (the sidebar button), when something is selected in
\* App's collections; otherwise it shows a toast and returns
handleDeleteSelected ==
    /\ ~(Len(Selected(nodes)) = 0 /\ Len(Selected(edges)) = 0)
    /\ nodes' = RemainingNodes(nodes)
    /\ edges' = RemainingEdges(nodes, edges)
    /\ AppCommit(RemainingNodes(nodes), RemainingEdges(nodes, edges))
    /\ UNCHANGED <<internalNodes, internalEdges, timers, nextId>>
    /\ UNCHANGED engineVars

ToastLayoutMinNodes == "At least 2 nodes required for auto layout"
ToastLayoutApplied == "Auto layout applied"

\* mutant: the layout is applied whatever the node count is
handleAutoLayoutOutcome_noMinimum(ns, es) ==
    [nodes |-> autoLayoutNodes(ns, es), edges |-> es, toast |-> ToastLayoutApplied]

\* the body of handleAutoLayout on App's state (ns, es): the state it leaves
\* and the toast it shows
handleAutoLayoutOutcome(ns, es) ==
    IF Len(ns) < 2
    THEN [nodes |-> ns, edges |-> es, toast |-> ToastLayoutMinNodes]
    ELSE [nodes |-> autoLayoutNodes(ns, es), edges |-> es, toast |-> ToastLayoutApplied]

\* handleAutoLayout from the sidebar button, which is disabled with fewer
\* than 2 nodes
handleAutoLayout ==
    /\ ~(Len(nodes) < 2)
    /\ nodes' = handleAutoLayoutOutcome(nodes, edges).nodes
    /\ AppCommit(handleAutoLayoutOutcome(nodes, edges).nodes, edges)
    /\ UNCHANGED <<edges, internalNodes, internalEdges, timers, nextId>>
    /\ UNCHANGED engineVars

\* handleClearGraph, confirmed
handleClearGraph ==
    /\ nodes' = <<>>
    /\ edges' = <<>>
    /\ AppCommit(<<>>, <<>>)
    /\ UNCHANGED <<internalNodes, internalEdges, timers, nextId>>
    /\ UNCHANGED engineVars

(***************************************************************************)
(* Engine calls on arbitrary bounded inputs                                *)
(***************************************************************************)
SeqsUpTo(S, n) == UNION {[1..k -> S] : k \in 0..n}

\* edge collections: any endpoints, self-loops and duplicates included
EdgeInputs == SeqsUpTo([source : NodeIds, target : NodeIds], MaxEdges)

\* node collections: distinct ids in any order
NodeInputs ==
    {ns \in SeqsUpTo([id : NodeIds], Cardinality(NodeIds)) :
        \A i, j \in DOMAIN ns : i # j => ns[i].id # ns[j].id}

\* App.tsx useState([]) and the Canvas refs on mount
EditorInit ==
    /\ nodes = <<>>
    /\ edges = <<>>
    /\ validation = validateDAG(<<>>, <<>>)
    /\ internalNodes = <<>>
    /\ internalEdges = <<>>
    /\ prevNodeIds = {}
    /\ prevEdgeIds = {}
    /\ pendingNodes = NoPending
    /\ pendingEdges = NoPending
    /\ timers = <<>>
    /\ nextId = 0

EngineIdle ==
    /\ argNodes = <<>>
    /\ argEdges = <<>>
    /\ argSource = None
    /\ argTarget = None
    /\ result = None
    /\ decision = None
    /\ pc = "idle"

InitValidate ==
    /\ argNodes \in NodeInputs
    /\ argEdges \in EdgeInputs
    /\ argSource = None
    /\ argTarget = None
    /\ result = None
    /\ decision = None
    /\ pc = "idle"
    /\ EditorInit

ValidateCall ==
    /\ pc = "idle"
    /\ result' = validateDAG(argNodes, argEdges)
    /\ pc' = "validated"
    /\ UNCHANGED <<argNodes, argEdges, argSource, argTarget, decision>>
    /\ UNCHANGED editorVars

SpecValidate == InitValidate /\ [][ValidateCall]_vars

InitGuard ==
    /\ argNodes = <<>>
    /\ argEdges \in EdgeInputs
    /\ argSource = None
    /\ argTarget = None
    /\ result = None
    /\ decision = None
    /\ pc = "idle"
    /\ EditorInit

GuardCall ==
    /\ pc = "idle"
    /\ \E s \in NodeIds, t \in NodeIds :
          /\ argSource' = s
          /\ argTarget' = t
          /\ decision' = canConnectNodes(s, t, argEdges)
    /\ pc' = "decided"
    /\ UNCHANGED <<argNodes, argEdges, result>>
    /\ UNCHANGED editorVars

SpecGuard == InitGuard /\ [][GuardCall]_vars

\* positions a node may have before a layout
Positions == {StartPosition, [x |-> 0, y |-> 0]}

\* node collections given to autoLayoutNodes: distinct ids in any order,
\* selected or not, labelled by their id
LayoutNodeInputs ==
    {[i \in DOMAIN ns |-> [createNode(ns[i].id, ns[i].id, pos) EXCEPT !.selected = sel]] :
        ns \in NodeInputs, pos \in Positions, sel \in BOOLEAN}

InitLayout ==
    /\ argNodes \in LayoutNodeInputs
    /\ argEdges \in EdgeInputs
    /\ argSource = None
    /\ argTarget = None
    /\ result = <<>>
    /\ decision = None
    /\ pc = "idle"
    /\ EditorInit

\* layoutedNodes = autoLayoutNodes(nodes, edges)
LayoutCall ==
    /\ pc = "idle"
    /\ result' = autoLayoutNodes(argNodes, argEdges)
    /\ pc' = "laid"
    /\ UNCHANGED <<argNodes, argEdges, argSource, argTarget, decision>>
    /\ UNCHANGED editorVars

\* setNodes(layoutedNodes), then autoLayoutNodes again on the nodes it returned
RelayoutCall ==
    /\ pc = "laid"
    /\ argNodes' = result
    /\ result' = autoLayoutNodes(result, argEdges)
    /\ pc' = "relaid"
    /\ UNCHANGED <<argEdges, argSource, argTarget, decision>>
    /\ UNCHANGED editorVars

NextLayout == LayoutCall \/ RelayoutCall

SpecLayout == InitLayout /\ [][NextLayout]_vars

\* handleAutoLayout called on any state of App
InitAutoLayout ==
    /\ argNodes \in LayoutNodeInputs
    /\ argEdges \in EdgeInputs
    /\ argSource = None
    /\ argTarget = None
    /\ result = None
    /\ decision = None
    /\ pc = "idle"
    /\ EditorInit

AutoLayoutCall ==
    /\ pc = "idle"
    /\ result' = handleAutoLayoutOutcome(argNodes, argEdges)
    /\ pc' = "handled"
    /\ UNCHANGED <<argNodes, argEdges, argSource, argTarget, decision>>
    /\ UNCHANGED editorVars

SpecAutoLayout == InitAutoLayout /\ [][AutoLayoutCall]_vars

(***************************************************************************)
(* The editor                                                              *)
(***************************************************************************)
Init == EditorInit /\ EngineIdle

Next ==
    \/ handleAddNode
    \/ onConnect
    \/ handleNodesChange
    \/ handleEdgesChange
    \/ TimerFire
    \/ CanvasRender
    \/ deleteSelected
    \/ handleDeleteSelected
    \/ handleAutoLayout
    \/ handleClearGraph

Spec == Init /\ [][Next]_vars

(***************************************************************************)
(* Graph notions the properties are stated with                            *)
(***************************************************************************)
EdgePairs(es) == {<<es[i].source, es[i].target>> : i \in DOMAIN es}

Symmetric(R) == R \cup {<<p[2], p[1]>> : p \in R}

\* the ids reachable from S along zero or more pairs of R
RECURSIVE ReachSet(_, _)
ReachSet(S, R) ==
    LET next == S \cup {p[2] : p \in {q \in R : q[1] \in S}}
    IN  IF next = S THEN S ELSE ReachSet(next, R)

PathExists(a, b, R) == b \in ReachSet({a}, R)

HasDirectedCycle(R) == \E p \in R : PathExists(p[2], p[1], R)

WellFormed(ns, es) ==
    \A i \in DOMAIN es : es[i].source \in IdsOf(ns) /\ es[i].target \in IdsOf(ns)

ReachedFromFirst(ns, es) ==
    IF Len(ns) = 0 THEN {} ELSE ReachSet({ns[1].id}, Symmetric(EdgePairs(es)))

Edge(s, t) == [source |-> s, target |-> t]

Chain == <<Edge("A", "B"), Edge("B", "C")>>

\* every ordering of a set of ids as a node collection
Orderings(S) ==
    {ns \in [1..Cardinality(S) -> [id : S]] :
        \A i, j \in DOMAIN ns : i # j => ns[i].id # ns[j].id}

(***************************************************************************)
(* Properties of validateDAG (SpecValidate)                                *)
(***************************************************************************)
\* C1: isValid = hasMinNodes AND NOT hasCycles AND allNodesConnected AND NOT
\* hasSelfLoops on every input; the chain A->B->C over [A,B,C] is valid; every
\* input with fewer than 2 nodes, a self-loop, a directed cycle or a node
\* that no edge path joins to the first node is invalid.
C1_ValidIffAllChecksPass ==
    pc = "validated" =>
        /\ result.isValid = (/\ result.hasMinNodes
                             /\ ~result.hasCycles
                             /\ result.allNodesConnected
                             /\ ~result.hasSelfLoops)
        /\ (MapIds(argNodes) = <<"A", "B", "C">> /\ argEdges = Chain
               => result.isValid)
        /\ (\/ Len(argNodes) < 2
            \/ \E i \in DOMAIN argEdges : argEdges[i].source = argEdges[i].target
            \/ HasDirectedCycle(EdgePairs(argEdges))
            \/ ~(IdsOf(argNodes) \subseteq ReachedFromFirst(argNodes, argEdges))
               => ~result.isValid)

\* C2: with at least 2 nodes and all edge endpoints among the nodes, hasCycles
\* is true exactly when the edges contain a directed cycle, and appending to
\* an acyclic collection an edge u->v where v already reaches u makes it true.
C2_HasCyclesIffDirectedCycle ==
    (pc = "validated" /\ Len(argNodes) >= 2 /\ WellFormed(argNodes, argEdges)) =>
        /\ result.hasCycles = HasDirectedCycle(EdgePairs(argEdges))
        /\ ~HasDirectedCycle(EdgePairs(argEdges)) =>
              \A u \in IdsOf(argNodes), v \in IdsOf(argNodes) :
                  PathExists(v, u, EdgePairs(argEdges)) =>
                      validateDAG(argNodes, Append(argEdges, Edge(u, v))).hasCycles

\* a cycle in a component the first root does not reach was reported
C2_Witness ==
    /\ pc = "validated"
    /\ Len(argNodes) >= 2
    /\ WellFormed(argNodes, argEdges)
    /\ result.hasCycles
    /\ ~HasDirectedCycle({p \in EdgePairs(argEdges) :
            p[1] \in ReachSet({argNodes[1].id}, EdgePairs(argEdges))})

\* C3: with all edge endpoints among the nodes, allNodesConnected is true
\* exactly when every node is reachable from the first node ignoring edge
\* direction; it is true with 0 or 1 nodes and false with 2 or more nodes and
\* no edges.
C3_ConnectedIffWeaklyConnected ==
    (pc = "validated" /\ WellFormed(argNodes, argEdges)) =>
        /\ result.allNodesConnected =
              (IdsOf(argNodes) \subseteq ReachedFromFirst(argNodes, argEdges))
        /\ Len(argNodes) <= 1 => result.allNodesConnected
        /\ (Len(argNodes) >= 2 /\ Len(argEdges) = 0) => ~result.allNodesConnected

\* three nodes joined only by edges that point towards the first node
C3_Witness ==
    /\ pc = "validated"
    /\ WellFormed(argNodes, argEdges)
    /\ Len(argNodes) = 3
    /\ result.allNodesConnected
    /\ ReachSet({argNodes[1].id}, EdgePairs(argEdges)) = {argNodes[1].id}

\* C10: every flag is computed from its own definition whatever the other
\* checks found: hasMinNodes = (node count >= 2), hasSelfLoops = (some edge has
\* source = target), allNodesConnected = the connectivity result, all present
\* in the returned result.
C10_FlagsIndependent ==
    pc = "validated" =>
        /\ {"isValid", "errors", "hasMinNodes", "hasCycles",
            "allNodesConnected", "hasSelfLoops"} \subseteq DOMAIN result
        /\ result.hasMinNodes = (Len(argNodes) >= 2)
        /\ result.hasSelfLoops =
              (\E i \in DOMAIN argEdges : argEdges[i].source = argEdges[i].target)
        /\ result.allNodesConnected = isWeaklyConnected(argNodes, argEdges)

\* a single node carrying a self-loop edge: both findings are reported
C10_Witness ==
    /\ pc = "validated"
    /\ Len(argNodes) = 1
    /\ argEdges = <<Edge(argNodes[1].id, argNodes[1].id)>>
    /\ ~result.hasMinNodes
    /\ result.hasSelfLoops

(***************************************************************************)
(* Properties of canConnectNodes (SpecGuard)                               *)
(***************************************************************************)
\* C4: when the pair (a,b) is not already an edge and a directed path from b
\* to a exists, canConnectNodes(a, b, E) refuses; with edges A->B, B->C the
\* connection C->A is refused with the cycle reason.
C4_PathBackRefuses ==
    pc = "decided" =>
        /\ (/\ ~ConnectionExists(argSource, argTarget, argEdges)
            /\ PathExists(argTarget, argSource, EdgePairs(argEdges)))
               => ~decision.canConnect
        /\ (argEdges = Chain /\ argSource = "C" /\ argTarget = "A")
               => decision = [canConnect |-> FALSE, reason |-> ReasonCycle]

C4_Witness ==
    /\ pc = "decided"
    /\ argEdges = Chain
    /\ argSource = "C"
    /\ argTarget = "A"
    /\ ~decision.canConnect

\* C5: for an acyclic edge collection E and a # b with (a,b) not in E, the
\* guard accepts exactly when detectCycles over the endpoints of E plus a->b,
\* in any order, reports no cycle.
C5_GuardAgreesWithDetectCycles ==
    (/\ pc = "decided"
     /\ ~HasDirectedCycle(EdgePairs(argEdges))
     /\ argSource # argTarget
     /\ ~ConnectionExists(argSource, argTarget, argEdges)) =>
        LET extended == Append(argEdges, Edge(argSource, argTarget))
            endpoints == {p[1] : p \in EdgePairs(extended)}
                            \cup {p[2] : p \in EdgePairs(extended)}
        IN  \A ns \in Orderings(endpoints) :
                decision.canConnect = ~detectCycles(ns, extended)

\* a connection refused because a path of two edges leads back
C5_Witness ==
    /\ pc = "decided"
    /\ ~HasDirectedCycle(EdgePairs(argEdges))
    /\ argSource # argTarget
    /\ ~ConnectionExists(argSource, argTarget, argEdges)
    /\ ~ConnectionExists(argTarget, argSource, argEdges)
    /\ ~decision.canConnect

\* C6: canConnect = true with no reason exactly when s # t, no edge s->t
\* exists and no directed path from t to s exists; otherwise canConnect =
\* false with a reason.
C6_AcceptExactly ==
    pc = "decided" =>
        LET ok == /\ argSource # argTarget
                  /\ <<argSource, argTarget>> \notin EdgePairs(argEdges)
                  /\ ~PathExists(argTarget, argSource, EdgePairs(argEdges))
        IN  /\ ok => decision = [canConnect |-> TRUE, reason |-> None]
            /\ ~ok => (~decision.canConnect /\ decision.reason # None)

\* an accepted connection that joins the ends of an existing path
C6_Witness ==
    /\ pc = "decided"
    /\ decision.canConnect
    /\ decision.reason = None
    /\ Len(argEdges) >= 2
    /\ PathExists(argSource, argTarget, EdgePairs(argEdges))

\* C7: canConnectNodes(a, a, E) refuses with the self-connection reason for
\* every E, also when E already holds a->a or a cycle.
C7_SelfConnectionRefused ==
    (pc = "decided" /\ argSource = argTarget) =>
        decision = [canConnect |-> FALSE, reason |-> ReasonSelf]

C7_Witness ==
    /\ pc = "decided"
    /\ argSource = argTarget
    /\ ConnectionExists(argSource, argSource, argEdges)
    /\ \E p \in EdgePairs(argEdges) : p[1] # p[2] /\ <<p[2], p[1]>> \in EdgePairs(argEdges)
    /\ decision.reason = ReasonSelf

\* C8: for s # t, an existing edge s->t makes canConnectNodes refuse with
\* 'Connection already exists', also when a path t->s exists; without an edge
\* s->t the duplicate reason is never given, and an existing reverse edge
\* t->s is refused by the cycle rule.
C8_DuplicateRefused ==
    (pc = "decided" /\ argSource # argTarget) =>
        /\ ConnectionExists(argSource, argTarget, argEdges)
              => decision = [canConnect |-> FALSE, reason |-> ReasonExists]
        /\ ~ConnectionExists(argSource, argTarget, argEdges)
              => decision.reason # ReasonExists
        /\ (/\ ~ConnectionExists(argSource, argTarget, argEdges)
            /\ ConnectionExists(argTarget, argSource, argEdges))
              => decision = [canConnect |-> FALSE, reason |-> ReasonCycle]

\* the edge s->t and the reverse edge t->s are both present
C8_Witness ==
    /\ pc = "decided"
    /\ argSource # argTarget
    /\ ConnectionExists(argSource, argTarget, argEdges)
    /\ ConnectionExists(argTarget, argSource, argEdges)
    /\ decision.reason = ReasonExists

(***************************************************************************)
(* Properties of the editor (Spec)                                         *)
(***************************************************************************)
NoSelfLoop(es) == \A i \in DOMAIN es : es[i].source # es[i].target

NoDuplicatePair(es) ==
    \A i, j \in DOMAIN es :
        (es[i].source = es[j].source /\ es[i].target = es[j].target) => i = j

IsDAG(es) == NoSelfLoop(es) /\ NoDuplicatePair(es) /\ ~HasDirectedCycle(EdgePairs(es))

\* C9: after any sequence of editor events, in any interleaving of their
\* handlers, the edge collections of the editor hold no self-loop, no two
\* edges with the same (source, target) and no directed cycle, and validateDAG
\* reports neither hasCycles nor hasSelfLoops.
C9_EditorKeepsDAG ==
    /\ IsDAG(internalEdges)
    /\ IsDAG(edges)
    /\ ~validation.hasCycles
    /\ ~validation.hasSelfLoops

(***************************************************************************)
(* Further properties of validateDAG (SpecValidate)                        *)
(***************************************************************************)
\* the edges whose source and target are both node ids, in order
KeepKnown(ns, es) ==
    SelectSeq(es, LAMBDA e : e.source \in IdsOf(ns) /\ e.target \in IdsOf(ns))

\* es with e inserted before position pos
InsertAt(es, pos, e) == SubSeq(es, 1, pos - 1) \o <<e>> \o SubSeq(es, pos, Len(es))

\* every reordering of a collection
Reorderings(items) ==
    {[i \in DOMAIN items |-> items[p[i]]] : p \in Permutations(DOMAIN items)}

Flags(r) == <<r.isValid, r.hasMinNodes, r.hasCycles, r.hasSelfLoops, r.allNodesConnected>>

\* C11: edges naming a node id that is not in the node collection are ignored:
\* hasCycles and allNodesConnected equal those computed on the edges whose
\* source and target are both nodes, whenever dropping the others does not
\* empty a non-empty edge collection.
C11_DanglingEdgesIgnored ==
    pc = "validated" =>
        LET kept == KeepKnown(argNodes, argEdges) IN
        (Len(argEdges) > 0 => Len(kept) > 0) =>
            /\ result.hasCycles = validateDAG(argNodes, kept).hasCycles
            /\ result.allNodesConnected = validateDAG(argNodes, kept).allNodesConnected

\* C12: a second edge with the same source and target as an edge already in
\* the collection, wherever it is inserted, leaves isValid, hasMinNodes,
\* hasCycles, hasSelfLoops, allNodesConnected and errors as they were.
C12_DuplicateEdgeChangesNothing ==
    pc = "validated" =>
        \A i \in DOMAIN argEdges : \A pos \in 1..(Len(argEdges) + 1) :
            validateDAG(argNodes, InsertAt(argEdges, pos, argEdges[i])) = result

\* three nodes and the same edge twice: two edges, yet one node is still
\* reported isolated
C12_Witness ==
    /\ pc = "validated"
    /\ Len(argNodes) = 3
    /\ Len(argEdges) = 2
    /\ argEdges[1] = argEdges[2]
    /\ argEdges[1].source # argEdges[1].target
    /\ WellFormed(argNodes, argEdges)
    /\ ~result.allNodesConnected
    /\ result.errors = <<ErrIsolated>>

\* C13: every reordering of the nodes and every reordering of the edges,
\* edges with endpoints outside the node collection included, yields the same
\* isValid, hasMinNodes, hasCycles, hasSelfLoops and allNodesConnected.
C13_OrderIrrelevant ==
    pc = "validated" =>
        \A ns \in Reorderings(argNodes), es \in Reorderings(argEdges) :
            Flags(validateDAG(ns, es)) = Flags(result)

\* C20: errors hold the 'No nodes present' message exactly when there are 0
\* nodes and the 'Add at least 1 more node' message exactly when there is 1
\* node (so neither with 2 or more), and with 0 or 1 nodes hasMinNodes and
\* isValid are false.
C20_NodeCountMessages ==
    pc = "validated" =>
        /\ (ErrNoNodes \in Range(result.errors)) = (Len(argNodes) = 0)
        /\ (ErrOneNode \in Range(result.errors)) = (Len(argNodes) = 1)
        /\ Len(argNodes) < 2 => (~result.hasMinNodes /\ ~result.isValid)

\* one node with a self-loop edge: the one-node message comes first, the
\* self-loop message after it
C20_Witness ==
    /\ pc = "validated"
    /\ Len(argNodes) = 1
    /\ result.errors = <<ErrOneNode, ErrSelfLoops>>
    /\ ~result.isValid

\* no id occurs twice in a sequence of visits
NoRepeat(log) == \A i, j \in DOMAIN log : log[i] = log[j] => i = j

\* C14: on every input (empty collections, directed cycles, self-loops,
\* duplicate edges, edges to ids that are not nodes) validateDAG returns a
\* result with its four flags, its verdict and its errors, canConnectNodes
\* returns a verdict for every pair of ids, and each of the three depth-first
\* searches (dfsHasCycle, the dfs of isWeaklyConnected, hasPath) visits a node
\* at most once.
C14_TotalAndVisitsOnce ==
    pc = "validated" =>
        /\ Flags(result) \in [1..5 -> BOOLEAN]
        /\ Range(result.errors) \subseteq
              {ErrNoNodes, ErrOneNode, ErrSelfLoops, ErrCycle, ErrNoConnections, ErrIsolated}
        /\ Len(argNodes) > 0 =>
              /\ NoRepeat(DetectRun(argNodes, argEdges).visited)
              /\ NoRepeat(ConnRun(argNodes, argEdges))
        /\ \A s \in NodeIds, t \in NodeIds :
              /\ canConnectNodes(s, t, argEdges).canConnect \in BOOLEAN
              /\ NoRepeat(hasPath(t, s, argEdges, <<>>).visited)

\* a result came back for edges that hold a self-loop, a two-node cycle and
\* an edge to an id that is not a node, and every node was visited
C14_Witness ==
    /\ pc = "validated"
    /\ Len(argNodes) = 2
    /\ Len(argEdges) = MaxEdges
    /\ ~WellFormed(argNodes, argEdges)
    /\ result.hasSelfLoops
    /\ result.hasCycles
    /\ ~result.isValid
    /\ Len(ConnRun(argNodes, argEdges)) = 3

(***************************************************************************)
(* Properties of autoLayoutNodes (SpecLayout)                              *)
(***************************************************************************)
\* out is inp with nothing but the positions rewritten: same count, same
\* order, same fields, every field other than position equal
OnlyPositionRewritten(inp, out) ==
    /\ Len(out) = Len(inp)
    /\ \A i \in DOMAIN inp :
          /\ DOMAIN out[i] = DOMAIN inp[i]
          /\ \A f \in DOMAIN inp[i] \ {"position"} : out[i][f] = inp[i][f]

\* C16: autoLayoutNodes returns the nodes it was given, in the same order and
\* with the same count and ids, every field other than position (id, type,
\* data, style, selected) unchanged, and the edge collection is left as it was;
\* this holds of the first layout and of a layout of its own output.
C16_LayoutRewritesOnlyPosition ==
    [][/\ argEdges' = argEdges
       /\ pc = "idle" => OnlyPositionRewritten(argNodes, result')
       /\ pc = "laid" => OnlyPositionRewritten(result, result')]_vars

\* three selected nodes were laid out: they moved and are still selected
C16_Witness ==
    /\ pc = "laid"
    /\ Len(argNodes) = 3
    /\ \A i \in DOMAIN argNodes :
          /\ argNodes[i].selected
          /\ result[i].selected
          /\ result[i].data.label = argNodes[i].id
          /\ result[i].position # argNodes[i].position

\* C18: laying out the nodes that a layout returned, with the same edges,
\* gives every node the position the first layout gave it.
C18_LayoutIdempotent ==
    pc = "relaid" =>
        /\ Len(result) = Len(argNodes)
        /\ \A i \in DOMAIN result : result[i].position = argNodes[i].position

\* a second layout ran on three nodes of which one lies below another
C18_Witness ==
    /\ pc = "relaid"
    /\ Len(result) = 3
    /\ Len(argEdges) > 0
    /\ \E i, j \in DOMAIN result : result[i].position.y < result[j].position.y

(***************************************************************************)
(* Messages and short cuts of validateDAG (SpecValidate)                   *)
(***************************************************************************)
\* C21: errors hold a connectivity message exactly when allNodesConnected is
\* false and there are more than 1 nodes: 'No connections between nodes'
\* exactly when, in addition, there is no edge, 'Some nodes are isolated'
\* exactly when there is at least one; none with 0 or 1 nodes or when the
\* graph is connected.
C21_ConnectivityMessages ==
    pc = "validated" =>
        LET failed == ~result.allNodesConnected /\ Len(argNodes) > 1 IN
        /\ (ErrNoConnections \in Range(result.errors)) = (failed /\ Len(argEdges) = 0)
        /\ (ErrIsolated \in Range(result.errors)) = (failed /\ Len(argEdges) > 0)
        /\ (Len(argNodes) <= 1 \/ result.allNodesConnected) =>
              Range(result.errors) \cap {ErrNoConnections, ErrIsolated} = {}

\* three nodes and a single edge between two of them: the third is reported
\* isolated, not unconnected
C21_Witness ==
    /\ pc = "validated"
    /\ Len(argNodes) = 3
    /\ Len(argEdges) = 1
    /\ WellFormed(argNodes, argEdges)
    /\ argEdges[1].source # argEdges[1].target
    /\ result.errors = <<ErrIsolated>>

\* C24: hasCycles is false whenever there is no edge or at most 1 node, also
\* for a single node with a self-loop edge, where hasSelfLoops is true.
C24_NoCycleWithoutEdgesOrNodes ==
    pc = "validated" =>
        /\ (Len(argEdges) = 0 \/ Len(argNodes) <= 1) => ~result.hasCycles
        /\ (Len(argNodes) = 1 /\ argEdges = <<Edge(argNodes[1].id, argNodes[1].id)>>) =>
              (result.hasSelfLoops /\ ~result.hasCycles)

\* one node whose edges form a cycle through itself was validated: the cycle
\* search, if run on it, would find a cycle, yet hasCycles is false
C24_Witness ==
    /\ pc = "validated"
    /\ Len(argNodes) = 1
    /\ argEdges = <<Edge(argNodes[1].id, argNodes[1].id)>>
    /\ detectCycles(argNodes, argEdges)
    /\ result.hasSelfLoops
    /\ ~result.hasCycles
    /\ ErrCycle \notin Range(result.errors)

\* C26: isValid is true exactly when errors is empty: each failing flag puts
\* at least one message in errors and no message is produced when the four
\* checks pass.
C26_ValidIffNoErrors ==
    pc = "validated" =>
        /\ result.isValid = (result.errors = <<>>)
        /\ ~result.hasMinNodes =>
              Range(result.errors) \cap {ErrNoNodes, ErrOneNode} # {}
        /\ result.hasSelfLoops => ErrSelfLoops \in Range(result.errors)
        /\ result.hasCycles => ErrCycle \in Range(result.errors)
        /\ ~result.allNodesConnected =>
              Range(result.errors) \cap {ErrNoConnections, ErrIsolated} # {}

\* every check but the node count failed at once: three messages, in the
\* order of the checks
C26_Witness ==
    /\ pc = "validated"
    /\ result.hasMinNodes
    /\ result.errors = <<ErrSelfLoops, ErrCycle, ErrIsolated>>
    /\ ~result.isValid

(***************************************************************************)
(* Canvas and App kept in step (Spec)                                      *)
(***************************************************************************)
\* no timer is waiting and no sync update is waiting for a render: nothing
\* more happens until the next user event
Quiescent ==
    /\ timers = <<>>
    /\ pendingNodes = NoPending
    /\ pendingEdges = NoPending

\* the index of the item with this id in a collection
IndexOf(items, id) == (CHOOSE i \in DOMAIN items : items[i].id = id)

\* C22: every edge accepted by the guard reaches App's edge collection, and
\* so the graph validateDAG is run on, without a further user event: once no
\* timer and no render is outstanding, every edge the canvas holds is in
\* App's edges.
C22_ConnectedEdgeReachesApp ==
    Quiescent => IdsOf(internalEdges) \subseteq IdsOf(edges)

\* C23: after handleAutoLayout has run with at least 2 nodes the nodes the
\* canvas renders come to carry the positions autoLayoutNodes returned: once
\* App's nodes hold the positions the layout gives them and no timer and no
\* render is outstanding, each node of the canvas has the position App holds
\* for it.
C23_LayoutReachesCanvas ==
    (/\ Quiescent
     /\ Len(nodes) >= 2
     /\ nodes = autoLayoutNodes(nodes, edges)
     /\ IdsOf(internalNodes) = IdsOf(nodes)) =>
        \A i \in DOMAIN internalNodes :
            internalNodes[i].position =
                nodes[IndexOf(nodes, internalNodes[i].id)].position

\* C27: the deferred write-back of a selection change adds no id to and
\* removes no id from App's collections, whatever was processed between the
\* selection change and the write-back.
C27_WriteBackKeepsIds ==
    [][Len(timers') < Len(timers) =>
          /\ IdsOf(nodes') = IdsOf(nodes)
          /\ IdsOf(edges') = IdsOf(edges)]_vars

\* ns2, es2 are ns, es without the selected nodes, the selected edges and the
\* edges that start or end at a selected node, everything else kept as it
\* was and in order
DeletesExactlySelection(ns, es, ns2, es2) ==
    LET gone == {ns[i].id : i \in {j \in DOMAIN ns : ns[j].selected}}
        keptEdges == {i \in DOMAIN es : /\ ~es[i].selected
                                        /\ es[i].source \notin gone
                                        /\ es[i].target \notin gone}
    IN  /\ IdsOf(ns2) = IdsOf(ns) \ gone
        /\ ns2 = SelectSeq(ns, LAMBDA n : n.id \in IdsOf(ns2))
        /\ IdsOf(es2) = {es[i].id : i \in keptEdges}
        /\ es2 = SelectSeq(es, LAMBDA e : e.id \in IdsOf(es2))

\* C25: a deletion, by the Delete key in the canvas or by the button in App,
\* removes exactly the selected nodes, the selected edges and the edges at a
\* deleted node and keeps the rest unchanged and in order; in App's
\* collections and in the canvas's no edge names a node that is not there.
C25_DeleteKeepsEndpoints ==
    /\ DeletesExactlySelection(internalNodes, internalEdges,
           RemainingNodes(internalNodes), RemainingEdges(internalNodes, internalEdges))
    /\ DeletesExactlySelection(nodes, edges,
           RemainingNodes(nodes), RemainingEdges(nodes, edges))
    /\ WellFormed(internalNodes, internalEdges)
    /\ WellFormed(nodes, edges)

(***************************************************************************)
(* handleAutoLayout (SpecAutoLayout)                                       *)
(***************************************************************************)
\* C28: with fewer than 2 nodes handleAutoLayout reports an error and leaves
\* nodes and edges as they are; with 2 or more it replaces the nodes by the
\* layout result and leaves the edges as they are, so the node ids, the edges
\* and every flag of validateDAG are the same before and after.
C28_AutoLayoutKeepsGraph ==
    pc = "handled" =>
        /\ result.edges = argEdges
        /\ MapIds(result.nodes) = MapIds(argNodes)
        /\ Flags(validateDAG(result.nodes, result.edges)) =
              Flags(validateDAG(argNodes, argEdges))
        /\ Len(argNodes) < 2 =>
              (result.toast = ToastLayoutMinNodes /\ result.nodes = argNodes)
        /\ Len(argNodes) >= 2 =>
              (/\ result.toast = ToastLayoutApplied
               /\ result.nodes = autoLayoutNodes(argNodes, argEdges))

\* a single node with a self-loop edge: the error is reported and the node
\* stays where it was
C28_Witness ==
    /\ pc = "handled"
    /\ Len(argNodes) = 1
    /\ Len(argEdges) = 1
    /\ result.toast = ToastLayoutMinNodes
    /\ result.nodes[1].position = StartPosition

====
